---- MODULE Spec2Model ----
(***************************************************************************)
(* Model of corner-api, src/main.py: the plan normalizer normalize_plan    *)
(* and the POST /generate handler with the external row store and the      *)
(* external identity service it talks to.                                  *)
(*                                                                         *)
(* Strings are sequences of one-character strings, so that strip(),        *)
(* lower(), str() and int() are computed character by character.           *)
(* JSON values are records tagged by t:                                    *)
(*   [t |-> "null"], [t |-> "bool", b], [t |-> "int", i],                  *)
(*   [t |-> "float", whole, tenths], [t |-> "str", s],                     *)
(*   [t |-> "list", items], [t |-> "obj", pairs], [t |-> "dict", f]        *)
(* "dict" is a request payload: f maps each key normalize_plan reads to    *)
(* its value, or to Absent when the key is missing.                        *)
(***************************************************************************)
EXTENDS Integers, Sequences, FiniteSets, TLC

\* ------------------------------------------------------------------ bounds
\* longest generated music string
MaxLen == 2
\* number of concurrent POST /generate requests
MaxReq == 2

\* --------------------------------------------------------------- strings
Whitespace == {" ", "\t"}

Upper == <<"A","B","C","D","E","F","G","H","I","J","K","L","M",
           "N","O","P","Q","R","S","T","U","V","W","X","Y","Z">>
LowerOf == <<"a","b","c","d","e","f","g","h","i","j","k","l","m",
             "n","o","p","q","r","s","t","u","v","w","x","y","z">>

\* str.lower() on one character
LowerChar(c) ==
  IF \E k \in 1..26 : Upper[k] = c
    THEN LowerOf[CHOOSE k \in 1..26 : Upper[k] = c]
    ELSE c

\* str.lower()
Lower(s) == [k \in 1..Len(s) |-> LowerChar(s[k])]

RECURSIVE LStrip(_)
LStrip(s) ==
  IF s # <<>> /\ Head(s) \in Whitespace THEN LStrip(Tail(s)) ELSE s

RECURSIVE RStrip(_)
RStrip(s) ==
  IF s # <<>> /\ s[Len(s)] \in Whitespace
    THEN RStrip(SubSeq(s, 1, Len(s) - 1))
    ELSE s

\* str.strip()
Strip(s) == RStrip(LStrip(s))

Digits == <<"0","1","2","3","4","5","6","7","8","9">>

IsDigit(c) == \E k \in 1..10 : Digits[k] = c

DigitVal(c) == (CHOOSE k \in 1..10 : Digits[k] = c) - 1

RECURSIVE NatToStr(_)
NatToStr(n) ==
  IF n < 10 THEN <<Digits[n + 1]>>
            ELSE NatToStr(n \div 10) \o <<Digits[(n % 10) + 1]>>

\* str(int)
IntToStr(n) == IF n < 0 THEN <<"-">> \o NatToStr(0 - n) ELSE NatToStr(n)

RECURSIVE DigitsVal(_)
DigitsVal(s) ==
  IF s = <<>> THEN 0
  ELSE 10 * DigitsVal(SubSeq(s, 1, Len(s) - 1)) + DigitVal(s[Len(s)])

\* int(str): surrounding whitespace and one sign are accepted, then digits
\* only; anything else is a ValueError
ParseInt(s) ==
  LET body == Strip(s)
      signed == body # <<>> /\ Head(body) \in {"+", "-"}
      digs == IF signed THEN Tail(body) ELSE body
  IN IF digs = <<>> \/ \E k \in 1..Len(digs) : ~IsDigit(digs[k])
       THEN [ok |-> FALSE, exc |-> "ValueError"]
       ELSE [ok |-> TRUE,
             i |-> IF signed /\ Head(body) = "-" THEN 0 - DigitsVal(digs)
                                                  ELSE DigitsVal(digs)]

\* ----------------------------------------------------------- JSON values
Absent == [t |-> "absent"]
None == [t |-> "null"]
JBool(b) == [t |-> "bool", b |-> b]
JInt(i) == [t |-> "int", i |-> i]
JFloat(w, d) == [t |-> "float", whole |-> w, tenths |-> d]
JStr(s) == [t |-> "str", s |-> s]
JList(items) == [t |-> "list", items |-> items]
JObj(pairs) == [t |-> "obj", pairs |-> pairs]
JDict(f) == [t |-> "dict", f |-> f]

\* Python truth value of a JSON value
Truthy(v) ==
  CASE v.t \in {"absent", "null"} -> FALSE
    [] v.t = "bool" -> v.b
    [] v.t = "int" -> v.i # 0
    [] v.t = "float" -> v.whole # 0 \/ v.tenths # 0
    [] v.t = "str" -> v.s # <<>>
    [] v.t = "list" -> v.items # <<>>
    [] v.t = "obj" -> v.pairs # <<>>
    [] v.t = "dict" -> \E k \in DOMAIN v.f : v.f[k].t # "absent"

\* a or b
Or(a, b) == IF Truthy(a) THEN a ELSE b

\* dict.get(key): None for a missing key
Get(payload, key) ==
  IF payload.f[key].t = "absent" THEN None ELSE payload.f[key]

RECURSIVE JoinInts(_)
JoinInts(items) ==
  IF items = <<>> THEN <<>>
  ELSE IF Len(items) = 1 THEN IntToStr(items[1])
  ELSE IntToStr(items[1]) \o <<",", " ">> \o JoinInts(Tail(items))

RECURSIVE JoinPairs(_)
JoinPairs(pairs) ==
  LET one(p) == <<"'">> \o p[1] \o <<"'", ":", " ">> \o IntToStr(p[2])
  IN IF pairs = <<>> THEN <<>>
     ELSE IF Len(pairs) = 1 THEN one(pairs[1])
     ELSE one(pairs[1]) \o <<",", " ">> \o JoinPairs(Tail(pairs))

\* str(v) for the values a payload field can hold
PyStr(v) ==
  CASE v.t = "null" -> <<"N","o","n","e">>
    [] v.t = "bool" -> IF v.b THEN <<"T","r","u","e">>
                              ELSE <<"F","a","l","s","e">>
    [] v.t = "int" -> IntToStr(v.i)
    [] v.t = "float" -> IntToStr(v.whole) \o <<".">> \o IntToStr(v.tenths)
    [] v.t = "str" -> v.s
    [] v.t = "list" -> <<"[">> \o JoinInts(v.items) \o <<"]">>
    [] v.t = "obj" -> <<"{">> \o JoinPairs(v.pairs) \o <<"}">>

\* int(v): bool and int as is, float truncated, str parsed, else TypeError
PyInt(v) ==
  CASE v.t = "bool" -> [ok |-> TRUE, i |-> IF v.b THEN 1 ELSE 0]
    [] v.t = "int" -> [ok |-> TRUE, i |-> v.i]
    [] v.t = "float" -> [ok |-> TRUE, i |-> v.whole]
    [] v.t = "str" -> ParseInt(v.s)
    [] OTHER -> [ok |-> FALSE, exc |-> "TypeError"]

\* -------------------------------------------------------- normalize_plan
ALLOWED_DIFFICULTIES ==
  { <<"b","e","g","i","n","n","e","r">>,
    <<"i","n","t","e","r","m","e","d","i","a","t","e">>,
    <<"a","d","v","a","n","c","e","d">> }

ALLOWED_PACES ==
  { <<"S","l","o","w">>, <<"N","o","r","m","a","l">>, <<"F","a","s","t">> }

ALLOWED_LENGTHS == {20, 30, 45, 60}

NO_MUSIC ==
  { <<"n","o","n","e">>, <<"n","o">>, <<"o","f","f">>,
    <<"c","o","a","c","h"," ","o","n","l","y">>,
    <<"c","o","a","c","h","-","o","n","l","y">> }

Beginner == <<"b","e","g","i","n","n","e","r">>
NormalPace == <<"N","o","r","m","a","l">>
NoneStr == <<"n","o","n","e">>

\* lines 31-33; .strip() exists on str only
NormDifficulty(payload) ==
  LET v == Or(Get(payload, "difficulty"), JStr(Beginner))
  IN IF v.t # "str"
       THEN [ok |-> FALSE, exc |-> "AttributeError"]
       ELSE LET d == Lower(Strip(v.s))
            IN [ok |-> TRUE,
                s |-> IF d \in ALLOWED_DIFFICULTIES THEN d ELSE Beginner]

ClampLengthKeepsAny(n) == n
\* lines 39-40
ClampLength(n) == IF n \in ALLOWED_LENGTHS THEN n ELSE 30

\* lines 35-40
NormLength(payload) ==
  LET v == Or(Get(payload, "length"), Or(Get(payload, "length_min"), JInt(30)))
      r == PyInt(v)
  IN ClampLength(IF r.ok THEN r.i ELSE 30)

\* lines 42-44
NormPace(payload) ==
  LET p == Strip(PyStr(Or(Get(payload, "pace"), JStr(NormalPace))))
  IN IF p \in ALLOWED_PACES THEN p ELSE NormalPace

\* lines 46-48
NormMusic(payload) ==
  LET m == Strip(PyStr(Or(Get(payload, "music"), JStr(NoneStr))))
  IN IF Lower(m) \in NO_MUSIC THEN NoneStr ELSE m

\* normalize_plan(payload); payload.get raises on anything but a dict
normalize_plan(payload) ==
  IF payload.t # "dict" THEN [ok |-> FALSE, exc |-> "AttributeError"]
  ELSE LET d == NormDifficulty(payload)
       IN IF ~d.ok THEN [ok |-> FALSE, exc |-> d.exc]
          ELSE [ok |-> TRUE,
                plan |-> [difficulty |-> d.s,
                          length_min |-> NormLength(payload),
                          pace |-> NormPace(payload),
                          music |-> NormMusic(payload)]]

\* the returned plan, read back as a request payload
PlanAsPayload(plan) ==
  JDict([difficulty |-> JStr(plan.difficulty),
         length |-> Absent,
         length_min |-> JInt(plan.length_min),
         pace |-> JStr(plan.pace),
         music |-> JStr(plan.music)])

\* ------------------------------------------------------- POST /generate
VARIABLES
  payload, result, result2, npc,  \* the normalizer under test
  pc,        \* [Req -> position of the request in generate()]
  body,      \* [Req -> kind of request body received]
  data,      \* [Req -> local data]
  plan,      \* [Req -> local plan]
  auth,      \* [Req -> what the Authorization header led to]
  user_id,   \* [Req -> local user_id]
  job_id,    \* [Req -> local job_id, 0 while unset]
  job_out,   \* [Req -> outcome of the jobs insert]
  sess_out,  \* [Req -> outcome of the class_sessions insert]
  calls,     \* [Req -> store calls issued so far, in order]
  resp,      \* [Req -> response sent, code 0 while none]
  jobs,      \* rows of table jobs
  class_sessions,  \* rows of table class_sessions
  next_id    \* next identifier the store assigns

nvars == <<payload, result, result2, npc>>
hvars == <<pc, body, data, plan, auth, user_id, job_id, job_out, sess_out,
           calls, resp, jobs, class_sessions, next_id>>
vars == <<nvars, hvars>>

Req == 1..MaxReq

NoResult == [ok |-> FALSE, exc |-> "not run"]

EmptyDict ==
  JDict([difficulty |-> Absent, length |-> Absent, length_min |-> Absent,
         pace |-> Absent, music |-> Absent])

NoPlan == [difficulty |-> <<>>, length_min |-> 0, pace |-> <<>>, music |-> <<>>]

NoResp == [code |-> 0, status |-> "", error |-> "", details |-> "",
           job_id |-> 0, user_id |-> "null"]

\* ---- request bodies and request.get_json(force=True, silent=True)
Bodies ==
  { [kind |-> "unreadable", v |-> None],
    [kind |-> "unparseable", v |-> None],
    [kind |-> "json", v |-> None],
    [kind |-> "json", v |-> JList(<<1>>)],
    [kind |-> "json", v |-> JDict([EmptyDict.f EXCEPT !.difficulty = JInt(5)])],
    [kind |-> "json", v |-> JDict([EmptyDict.f EXCEPT !.length = JInt(45)])] }

\* a well-formed request body
PlainBody ==
  [kind |-> "json", v |-> JDict([EmptyDict.f EXCEPT !.length = JInt(37)])]

\* request 1 carries any body; the requests racing with it are well formed
BodiesOf(r) == IF r = 1 THEN Bodies ELSE {PlainBody}

\* with silent=True a parse failure is swallowed and None returned; only a
\* failure to read the body propagates
get_json(b) ==
  CASE b.kind = "unreadable" -> [ok |-> FALSE, exc |-> "BadRequest"]
    [] b.kind = "unparseable" -> [ok |-> TRUE, v |-> None]
    [] OTHER -> [ok |-> TRUE, v |-> b.v]

\* ---- Authorization header
BearerPrefix == <<"b","e","a","r","e","r"," ">>

StartsWith(s, prefix) ==
  Len(s) >= Len(prefix) /\ SubSeq(s, 1, Len(prefix)) = prefix

\* s.split(" ", 1)[1] for a string that holds a space
AfterFirstSpace(s) ==
  LET k == CHOOSE i \in 1..Len(s) :
             s[i] = " " /\ \A j \in 1..(i - 1) : s[j] # " "
  IN SubSeq(s, k + 1, Len(s))

ValidToken == <<"t","k">>

Headers ==
  { <<>>,
    <<"B","a","s","i","c"," ","t","k">>,
    <<"B","e","a","r","e","r"," ">>,
    <<"B","E","A","R","E","R"," "," ","t","k">>,
    <<"b","e","a","r","e","r"," ","z">> }

\* request 1 carries any header; the requests racing with it carry none
HeadersOf(r) == IF r = 1 THEN Headers ELSE {<<>>}

\* what supabase.auth.get_user(token) can do: a user with an id for the
\* valid token only; a response without user, a user without id, or an
\* exception for any token
GetUserOutcomes(token) ==
  {"raise", "nouser", "noid"} \cup (IF token = ValidToken THEN {"user"} ELSE {})

\* lines 174-178: user id taken from the response, None otherwise
UserIdOf(outcome) == IF outcome = "user" THEN "u1" ELSE "null"

\* ---- store responses
NoError == ""

\* supa_err(resp)
supa_err(res) == IF res.error = NoError THEN NoError ELSE res.error

\* lines 197: the jobs insert counts as failed
JobInsertFailedNoData(res) == supa_err(res) # NoError
JobInsertFailed(res) == supa_err(res) # NoError \/ res.data = <<>>

\* lines 186-192
JobPayload(p) == [status |-> "queued", plan |-> p]

SessPayloadNextJob(j, u, p) ==
  [job_id |-> j + 1, user_id |-> u, status |-> "queued", plan |-> p,
   difficulty |-> p.difficulty, length_min |-> p.length_min,
   pace |-> p.pace, music |-> p.music]
\* lines 212-229
SessPayload(j, u, p) ==
  [job_id |-> j, user_id |-> u, status |-> "queued", plan |-> p,
   difficulty |-> p.difficulty, length_min |-> p.length_min,
   pace |-> p.pace, music |-> p.music]

\* a row as the store keeps it: the inserted columns, the identifier the
\* store assigned and the request that inserted it
Row(id, r, cols) == [id |-> id, req |-> r, cols |-> cols]

\* lines 255-261
InternalError(exc) ==
  [NoResp EXCEPT !.code = 500, !.status = "error",
                 !.error = "Internal server error", !.details = exc]

\* no request has been received and both tables are empty
InitHandler ==
  /\ pc = [r \in Req |-> "start"]
  /\ body = [r \in Req |-> "none"]
  /\ data = [r \in Req |-> None]
  /\ plan = [r \in Req |-> NoPlan]
  /\ auth = [r \in Req |-> "none"]
  /\ user_id = [r \in Req |-> "null"]
  /\ job_id = [r \in Req |-> 0]
  /\ job_out = [r \in Req |-> "none"]
  /\ sess_out = [r \in Req |-> "none"]
  /\ calls = [r \in Req |-> <<>>]
  /\ resp = [r \in Req |-> NoResp]
  /\ jobs = {}
  /\ class_sessions = {}
  /\ next_id = 1

Init ==
  /\ payload = EmptyDict /\ result = NoResult /\ result2 = NoResult
  /\ npc = "idle"
  /\ InitHandler

\* lines 155-158: data = request.get_json(force=True, silent=True) or {}
ParseBody(r) ==
  /\ pc[r] = "start"
  /\ \E b \in BodiesOf(r) :
       LET j == get_json(b)
       IN /\ body' = [body EXCEPT ![r] = b.kind]
          /\ IF ~j.ok
               THEN /\ resp' = [resp EXCEPT ![r] =
                         [NoResp EXCEPT !.code = 400, !.status = "error",
                                        !.error = "Invalid JSON"]]
                    /\ pc' = [pc EXCEPT ![r] = "done"]
                    /\ UNCHANGED data
               ELSE /\ data' = [data EXCEPT ![r] = Or(j.v, EmptyDict)]
                    /\ pc' = [pc EXCEPT ![r] = "normalize"]
                    /\ UNCHANGED resp
  /\ UNCHANGED <<nvars, plan, auth, user_id, job_id, job_out, sess_out,
                 calls, jobs, class_sessions, next_id>>

\* line 160: plan = normalize_plan(data); an exception goes to line 255
NormalizeData(r) ==
  /\ pc[r] = "normalize"
  /\ LET n == normalize_plan(data[r])
     IN IF n.ok
          THEN /\ plan' = [plan EXCEPT ![r] = n.plan]
               /\ pc' = [pc EXCEPT ![r] = "auth"]
               /\ UNCHANGED resp
          ELSE /\ resp' = [resp EXCEPT ![r] = InternalError(n.exc)]
               /\ pc' = [pc EXCEPT ![r] = "done"]
               /\ UNCHANGED plan
  /\ UNCHANGED <<nvars, body, data, auth, user_id, job_id, job_out, sess_out,
                 calls, jobs, class_sessions, next_id>>

\* lines 162-180: optional bearer token, resolved through the identity
\* service; every failure leaves user_id None
ResolveIdentity(r) ==
  /\ pc[r] = "auth"
  /\ \E h \in HeadersOf(r) :
       IF StartsWith(Lower(h), BearerPrefix)
         THEN LET token == Strip(AfterFirstSpace(h))
              IN \E o \in GetUserOutcomes(token) :
                   /\ user_id' = [user_id EXCEPT ![r] = UserIdOf(o)]
                   /\ auth' = [auth EXCEPT ![r] =
                        IF o = "user" THEN "resolved"
                        ELSE IF token = <<>> THEN "empty" ELSE "failed"]
         ELSE /\ user_id' = [user_id EXCEPT ![r] = "null"]
              /\ auth' = [auth EXCEPT ![r] =
                   IF h = <<>> THEN "absent" ELSE "nonbearer"]
  /\ pc' = [pc EXCEPT ![r] = "job"]
  /\ UNCHANGED <<nvars, body, data, plan, job_id, job_out, sess_out,
                 calls, resp, jobs, class_sessions, next_id>>

\* lines 183-206: insert the jobs row, then check the store's answer
InsertJob(r) ==
  /\ pc[r] = "job"
  /\ calls' = [calls EXCEPT ![r] =
                 Append(@, [table |-> "jobs", op |-> "insert", id |-> 0])]
  /\ \E o \in {"ok", "error", "empty", "noid", "raise"} :
       /\ job_out' = [job_out EXCEPT ![r] = o]
       /\ IF o = "ok"
            THEN /\ jobs' = jobs \cup {Row(next_id, r, JobPayload(plan[r]))}
                 /\ next_id' = next_id + 1
            ELSE UNCHANGED <<jobs, next_id>>
       /\ IF o = "raise"
            THEN /\ resp' = [resp EXCEPT ![r] = InternalError("APIError")]
                 /\ pc' = [pc EXCEPT ![r] = "done"]
                 /\ UNCHANGED job_id
            ELSE LET job_res ==
                       CASE o = "ok" ->
                              [error |-> NoError, data |-> <<[id |-> next_id]>>]
                         [] o = "error" ->
                              [error |-> "insert rejected", data |-> <<>>]
                         [] o = "empty" ->
                              [error |-> NoError, data |-> <<>>]
                         [] o = "noid" ->
                              [error |-> NoError, data |-> <<[id |-> 0]>>]
                     job_err == supa_err(job_res)
                 IN IF JobInsertFailed(job_res)
                      THEN /\ resp' = [resp EXCEPT ![r] =
                                [NoResp EXCEPT
                                   !.code = 500, !.status = "error",
                                   !.error = "Failed to create job row",
                                   !.details =
                                     IF job_err # NoError THEN job_err
                                     ELSE "Unknown Supabase error"]]
                           /\ pc' = [pc EXCEPT ![r] = "done"]
                           /\ UNCHANGED job_id
                      ELSE IF job_res.data = <<>>
                      THEN /\ resp' = [resp EXCEPT ![r] =
                                         InternalError("IndexError")]
                           /\ pc' = [pc EXCEPT ![r] = "done"]
                           /\ UNCHANGED job_id
                      ELSE IF job_res.data[1].id = 0
                      THEN /\ resp' = [resp EXCEPT ![r] =
                                [NoResp EXCEPT
                                   !.code = 500, !.status = "error",
                                   !.error = "Job row missing id"]]
                           /\ pc' = [pc EXCEPT ![r] = "done"]
                           /\ UNCHANGED job_id
                      ELSE /\ job_id' = [job_id EXCEPT ![r] =
                                           job_res.data[1].id]
                           /\ pc' = [pc EXCEPT ![r] = "session"]
                           /\ UNCHANGED resp
  /\ UNCHANGED <<nvars, body, data, plan, auth, user_id, sess_out,
                 class_sessions>>

\* lines 209-231: insert the class_sessions row; the answer is kept in
\* sess_res and not looked at before line 233.  The statement is indented
\* one level short of the try body it sits in (try at line 153, except at
\* line 255); it is read in statement order, inside that try, so an
\* exception of the call goes to line 255.
InsertSession(r) ==
  /\ pc[r] = "session"
  /\ calls' = [calls EXCEPT ![r] =
                 Append(@, [table |-> "class_sessions", op |-> "insert",
                            id |-> 0])]
  /\ \E o \in {"ok", "error", "raise"} :
       /\ sess_out' = [sess_out EXCEPT ![r] = o]
       /\ IF o = "ok"
            THEN /\ class_sessions' = class_sessions \cup
                      {Row(next_id, r, SessPayload(job_id[r], user_id[r], plan[r]))}
                 /\ next_id' = next_id + 1
            ELSE UNCHANGED <<class_sessions, next_id>>
       /\ IF o = "raise"
            THEN /\ resp' = [resp EXCEPT ![r] = InternalError("APIError")]
                 /\ pc' = [pc EXCEPT ![r] = "done"]
            ELSE /\ pc' = [pc EXCEPT ![r] = "second"]
                 /\ UNCHANGED resp
  /\ UNCHANGED <<nvars, body, data, plan, auth, user_id, job_id, job_out,
                 jobs>>

\* line 233: the argument sess_payload is bound nowhere in the module, so
\* evaluating it raises NameError before insert() is called; control goes
\* to line 255.  Lines 234-253 (the sess_err test, the jobs delete and
\* both remaining responses) are never reached.
SecondSessionInsert(r) ==
  /\ pc[r] = "second"
  /\ resp' = [resp EXCEPT ![r] = InternalError("NameError")]
  /\ pc' = [pc EXCEPT ![r] = "done"]
  /\ UNCHANGED <<nvars, body, data, plan, auth, user_id, job_id, job_out,
                 sess_out, calls, jobs, class_sessions, next_id>>

Next ==
  \E r \in Req :
    \/ ParseBody(r)
    \/ NormalizeData(r)
    \/ ResolveIdentity(r)
    \/ InsertJob(r)
    \/ InsertSession(r)
    \/ SecondSessionInsert(r)

Spec == Init /\ [][Next]_vars

AllDone == \A r \in Req : pc[r] = "done"

\* ------------------------------------------------- normalizer under test
MusicAlphabet == {" ", "n", "o", "N", "O"}

\* every string over MusicAlphabet of length at most n
GenStrings(n) == UNION { [1..k -> MusicAlphabet] : k \in 0..n }

DifficultyInputs ==
  { Absent, JInt(5), JBool(TRUE), JList(<<1>>),
    JStr(<<" ">>),
    JStr(<<" ","A","d","v","a","n","c","e","d","\t">>) }

LengthInputs ==
  { Absent, JInt(0), JInt(37), JInt(45), JInt(-20), JBool(TRUE),
    JFloat(45, 9), JList(<<20>>),
    JStr(<<" ","6","0"," ">>), JStr(<<"4","5",".","0">>) }

LengthMinInputs == { Absent, JInt(20), JStr(<<"6","1">>) }

PaceInputs ==
  { Absent, JObj(<< <<(<<"a">>), 1>> >>),
    JStr(<<" ","F","a","s","t"," ">>), JStr(<<"s","l","o","w">>) }

MusicInputs ==
  { Absent, None, JBool(FALSE), JBool(TRUE), JInt(7), JFloat(1, 5),
    JList(<<1, 2>>), JObj(<< <<(<<"a">>), 1>> >>),
    JStr(<<"N","o","n","e">>), JStr(<<"O","F","F">>),
    JStr(<<"C","o","a","c","h"," ","O","n","l","y">>),
    JStr(<<"c","o","a","c","h","-","o","n","l","y">>),
    JStr(<<" ","L","o","F","i"," ">>) }
  \cup { JStr(s) : s \in GenStrings(MaxLen) }

Payloads ==
  { JDict([difficulty |-> d, length |-> l, length_min |-> lm,
           pace |-> p, music |-> m]) :
      d \in DifficultyInputs, l \in LengthInputs, lm \in LengthMinInputs,
      p \in PaceInputs, m \in MusicInputs }

InitNorm ==
  /\ payload \in Payloads
  /\ result = NoResult
  /\ result2 = NoResult
  /\ npc = "start"
  /\ InitHandler

\* plan = normalize_plan(payload)
Normalize ==
  /\ npc = "start"
  /\ result' = normalize_plan(payload)
  /\ npc' = "once"
  /\ UNCHANGED <<payload, result2, hvars>>

\* normalize_plan(plan), when the first call returned
Renormalize ==
  /\ npc = "once"
  /\ result.ok
  /\ result2' = normalize_plan(PlanAsPayload(result.plan))
  /\ npc' = "twice"
  /\ UNCHANGED <<payload, result, hvars>>

NextNorm == Normalize \/ Renormalize

SpecNorm == InitNorm /\ [][NextNorm]_vars

\* ------------------------------------------------------------ properties
DeleteCalls(r) ==
  { k \in 1..Len(calls[r]) :
      calls[r][k].table = "jobs" /\ calls[r][k].op = "delete" }

SessionInsertCalls(r) ==
  { k \in 1..Len(calls[r]) :
      calls[r][k].table = "class_sessions" /\ calls[r][k].op = "insert" }

JobInsertCalls(r) ==
  { k \in 1..Len(calls[r]) :
      calls[r][k].table = "jobs" /\ calls[r][k].op = "insert" }

\* C1: after a successful jobs insert, a failed class_sessions insert
\* (error answer or exception) is followed by exactly one jobs delete for
\* that job id, and the response is a 500 naming the class_sessions failure.
C1_RollbackAfterSessionFailure ==
  \A r \in Req :
    (pc[r] = "done" /\ job_out[r] = "ok" /\ sess_out[r] \in {"error", "raise"})
      => /\ Cardinality(DeleteCalls(r)) = 1
         /\ \A k \in DeleteCalls(r) : calls[r][k].id = job_id[r]
         /\ resp[r].code = 500
         /\ resp[r].error = "class_sessions insert failed"

\* C3: a jobs insert that answers with an error, with no rows, or with a
\* row without id ends the request with a 500 job-creation failure, and the
\* request issues no class_sessions insert and no jobs delete.
C3_JobFailureIsTerminal ==
  \A r \in Req :
    job_out[r] \in {"error", "empty", "noid"}
      => /\ pc[r] = "done"
         /\ resp[r].code = 500 /\ resp[r].status = "error"
         /\ resp[r].error \in {"Failed to create job row", "Job row missing id"}
         /\ SessionInsertCalls(r) = {} /\ DeleteCalls(r) = {}
         /\ \A s \in class_sessions : s.req # r

C3_Witness ==
  \E r1, r2 \in Req :
    /\ job_out[r1] = "empty" /\ resp[r1].error = "Failed to create job row"
    /\ job_out[r2] = "noid" /\ resp[r2].error = "Job row missing id"
    /\ Len(calls[r1]) = 1 /\ Len(calls[r2]) = 1

\* C4: a body that is not parseable JSON is answered 400 with status
\* "error", and no jobs or class_sessions row is inserted for it.
C4_MalformedBodyIs400 ==
  \A r \in Req :
    (pc[r] = "done" /\ body[r] = "unparseable")
      => /\ resp[r].code = 400 /\ resp[r].status = "error"
         /\ JobInsertCalls(r) = {} /\ SessionInsertCalls(r) = {}
         /\ \A j \in jobs : j.req # r
         /\ \A s \in class_sessions : s.req # r

\* C5: with no Authorization header, a non-bearer or empty bearer token, or
\* a failed identity lookup, user_id is null, the request still goes on to
\* the inserts, and when both inserts succeed the response is 202 with
\* user_id null.
C5_AnonymousStillQueued ==
  \A r \in Req :
    auth[r] \in {"absent", "nonbearer", "empty", "failed"}
      => /\ user_id[r] = "null"
         /\ pc[r] # "auth"
         /\ (pc[r] = "done" /\ job_out[r] = "ok" /\ sess_out[r] = "ok")
              => (resp[r].code = 202 /\ resp[r].user_id = "null")

\* C9: once every request has responded, each class_sessions row with a
\* job_id references a jobs row that still exists and that its own request
\* created; a job is missing from the table only if the request that
\* created it issued the delete for it.
C9_SessionsReferenceExistingJobs ==
  AllDone =>
    /\ \A s \in class_sessions :
         s.cols.job_id # 0 =>
           \E j \in jobs : j.id = s.cols.job_id /\ j.req = s.req
    /\ \A r \in Req :
         job_out[r] = "ok" =>
           \/ \E j \in jobs : j.id = job_id[r] /\ j.req = r
           \/ \E k \in DeleteCalls(r) : calls[r][k].id = job_id[r]

C9_Witness ==
  /\ AllDone
  /\ \E r1, r2 \in Req :
       /\ r1 # r2
       /\ sess_out[r1] = "ok" /\ sess_out[r2] = "error"
       /\ job_id[r2] < job_id[r1]
       /\ \E s \in class_sessions : s.req = r1 /\ s.cols.job_id = job_id[r1]
       /\ \E s \in class_sessions : s.req = r1 /\ s.id > job_id[r2]

\* C10: after the response, a jobs row of the request that no
\* class_sessions row references is left only when the request attempted
\* the compensating delete (and the delete failed to remove it).
C10_OrphanOnlyAfterFailedDelete ==
  \A r \in Req :
    pc[r] = "done" =>
      \A j \in jobs :
        (j.req = r /\ ~\E s \in class_sessions : s.cols.job_id = j.id)
          => \E k \in DeleteCalls(r) : calls[r][k].id = j.id

C7_NeverRaises == (npc \in {"once", "twice"}) => result.ok

\* C8: normalize_plan applied to its own output returns that output.
C8_Idempotent == (npc = "twice") => (result2.ok /\ result2.plan = result.plan)

====
